---- MODULE Spec2Model ----
(***************************************************************************)
(* A model of geofile (src/src/geofile/geofile.py): the four metrics       *)
(* collectors, convert_shapefile and main.  The geospatial library, the    *)
(* file system and the clock are the environment.                          *)
(***************************************************************************)
EXTENDS Integers, Sequences, FiniteSets, TLC

\* ---------------------------------------------------------------- bounds
\* conversions one caller runs one after the other
MaxCalls == 2
MaxOps == 2
\* threads of the caller (only thread 1 runs in Spec)
NProcs == 2

Procs == 1..NProcs
\* collector 0 is the NullCollector convert_shapefile makes for metrics=None;
\* the caller's collectors are 1..NProcs
Insts == 0..NProcs

\* ------------------------------------------------------------ environment
\* A path is the sequence of the dot-separated parts of its name.
InShp == <<"a", "shp">>
InBad == <<"bad", "shp">>
InMissing == <<"missing", "shp">>
OutGiven == <<"out", "geojson">>

InputPaths == {InShp, InBad, InMissing}

\* input names the command line may also be given: one with two dots and one
\* with no extension
InDotted == <<"a", "v1", "shp">>
InNoExt == <<"data">>
MainInputs == InputPaths \cup {InDotted, InNoExt}

NoCrs == [name |-> "None"]
Wgs84 == [name |-> "EPSG:4326"]

NoTable == [rows |-> 0, crs |-> NoCrs, cols |-> {}]
\* the two-polygon table of the tests' sample_polygon_shapefile
Polygons == [rows |-> 2, crs |-> Wgs84, cols |-> {"region", "area", "geometry"}]

Absent == [kind |-> "absent", bytes |-> 0, table |-> NoTable]

\* the files that exist before the first conversion
InitialFs(p) ==
  IF p \in {InShp, InDotted, InNoExt}
  THEN [kind |-> "shapefile", bytes |-> 372, table |-> Polygons]
  ELSE IF p = InBad THEN [kind |-> "junk", bytes |-> 7, table |-> NoTable]
  ELSE Absent

\* str(path): the parts joined by dots
PathStr(p) ==
  [k \in 1..(IF Len(p) = 0 THEN 0 ELSE 2 * Len(p) - 1) |->
     IF k % 2 = 1 THEN p[(k + 1) \div 2] ELSE "."]

\* mutation of with_suffix: '.geojson' is put after the whole name
with_suffix_appended(p) == p \o <<"geojson">>

\* Path(input_path).with_suffix('.geojson')
with_suffix(p) ==
  IF Len(p) > 1 THEN SubSeq(p, 1, Len(p) - 1) \o <<"geojson">>
  ELSE p \o <<"geojson">>

\* str(gdf.crs)
CrsStr(crs) == crs.name

\* os.path.getsize(path) / 1024 / 1024, kept as a fraction
BytesPerKB == 1024
SizeMB(bytes) == <<bytes, BytesPerKB * BytesPerKB>>

\* the GeoJSON document to_file writes for a table
GeoJSONFile(t) ==
  [kind |-> "geojson", bytes |-> 120 + 95 * t.rows, table |-> t]

\* exceptions: the type, the message, and which raise it was (0: from the
\* file system or the geospatial library; n: from the collector's n-th
\* _write_record).  str(e) gives the message.
NoExc == [type |-> "None", msg |-> <<>>, id |-> 0]
Exc(type, what, path) == [type |-> type, msg |-> <<what>> \o PathStr(path), id |-> 0]
ExcStr(e) == e.msg

\* ------------------------------------------------------------- collectors
\* A collector object.  Every class keeps its own fields; the others stay as
\* constructed.  written is what _write_record was asked to emit, in order:
\* who called it, whether the destination took the line, and the line.
NewCollector(kind, output_file) ==
  [kind |-> kind,
   output_file |-> output_file,
   current_record |-> [k \in {} |-> 0],
   written |-> <<>>,
   conversion_counter |-> [success |-> 0, failure |-> 0],
   conversion_duration |-> <<>>,
   read_duration |-> <<>>,
   write_duration |-> <<>>,
   feature_count_gauge |-> 0,
   input_size_gauge |-> <<0, 1>>,
   output_size_gauge |-> <<0, 1>>,
   client |-> <<>>,
   raises |-> {}]

Unconstructed == NewCollector("unconstructed", "None")
NullCollector == NewCollector("null", "None")
JsonLogCollector(output_file) == NewCollector("json", output_file)
PrometheusCollector == NewCollector("prometheus", "None")
StatsDCollector == NewCollector("statsd", "None")

MetricsFile == "metrics.jsonl"
\* Python's truth value of self.output_file
Truthy(s) == s \notin {"None", ""}

\* what a collector call gives back: the object after it, and what it raised
Ok(c) == [c |-> c, exc |-> NoExc]
MetricsFileError(n) ==
  [type |-> "OSError", msg |-> <<"cannot open", MetricsFile>>, id |-> n]

\* dict.update: the keys of kv win
Update(d, kv) == kv @@ d

\* time.strftime('%Y-%m-%d %H:%M:%S')
strftime(now) == [sec |-> now]

\* JsonLogCollector._write_record; env.ok: the destination file can be
\* appended to; env.who: the conversion that is calling
\* mutation of _write_record: the file is opened with 'w' and holds the new
\* line alone
JsonLog_write_record_truncating(c, record, env) ==
  IF Truthy(c.output_file) /\ ~env.ok
  THEN [c |-> [c EXCEPT !.written =
                 Append(@, [by |-> env.who, ok |-> FALSE, line |-> record])],
        exc |-> MetricsFileError(Len(c.written) + 1)]
  ELSE Ok([c EXCEPT !.written =
             <<[by |-> env.who, ok |-> TRUE, line |-> record]>>])

JsonLog_write_record(c, record, env) ==
  IF Truthy(c.output_file) /\ ~env.ok
  THEN [c |-> [c EXCEPT !.written =
                 Append(@, [by |-> env.who, ok |-> FALSE, line |-> record])],
        exc |-> MetricsFileError(Len(c.written) + 1)]
  ELSE Ok([c EXCEPT !.written =
             Append(@, [by |-> env.who, ok |-> TRUE, line |-> record])])

\* mutation of record_conversion_start: the new fields are merged into the
\* record in place of replacing it
JsonLog_record_conversion_start_merge(c, now) ==
  Ok([c EXCEPT !.current_record =
        Update(@, ("timestamp" :> strftime(now)) @@ ("event" :> "conversion_start"))])

JsonLog_record_conversion_start(c, now) ==
  Ok([c EXCEPT !.current_record =
        ("timestamp" :> strftime(now)) @@ ("event" :> "conversion_start")])

JsonLog_record_conversion_success(c, duration, metadata, env) ==
  LET rec == Update(c.current_record,
                    ("event" :> "conversion_success")
                      @@ ("duration_seconds" :> duration) @@ metadata)
      c1 == [c EXCEPT !.current_record = rec]
  IN JsonLog_write_record(c1, rec, env)

\* mutation of record_conversion_failure: only the error is merged, and the
\* event tag stays as record_conversion_start left it
JsonLog_record_conversion_failure_untagged(c, error, env) ==
  LET rec == Update(c.current_record, "error" :> error)
      c1 == [c EXCEPT !.current_record = rec]
  IN JsonLog_write_record(c1, rec, env)

JsonLog_record_conversion_failure(c, error, env) ==
  LET rec == Update(c.current_record,
                    ("event" :> "conversion_failure") @@ ("error" :> error))
      c1 == [c EXCEPT !.current_record = rec]
  IN JsonLog_write_record(c1, rec, env)

JsonLog_record_read_time(c, duration) ==
  Ok([c EXCEPT !.current_record = Update(@, "read_duration_seconds" :> duration)])

JsonLog_record_write_time(c, duration) ==
  Ok([c EXCEPT !.current_record = Update(@, "write_duration_seconds" :> duration)])

JsonLog_record_feature_count(c, count) ==
  Ok([c EXCEPT !.current_record = Update(@, "feature_count" :> count)])

JsonLog_record_file_sizes(c, input_mb, output_mb) ==
  Ok([c EXCEPT !.current_record =
        Update(@, ("input_size_mb" :> input_mb) @@ ("output_size_mb" :> output_mb))])

\* PrometheusCollector: a counter per status label, three histograms (kept as
\* the observations made) and three gauges
Prometheus_record_conversion_start(c) == Ok(c)

Prometheus_record_conversion_success(c, duration) ==
  Ok([c EXCEPT !.conversion_counter.success = @ + 1,
               !.conversion_duration = Append(@, duration)])

\* mutation of Prometheus_record_conversion_failure: the failure is counted
\* under the label of the other outcome
Prometheus_record_conversion_failure_mislabelled(c) ==
  Ok([c EXCEPT !.conversion_counter.success = @ + 1])

Prometheus_record_conversion_failure(c) ==
  Ok([c EXCEPT !.conversion_counter.failure = @ + 1])

Prometheus_record_read_time(c, duration) ==
  Ok([c EXCEPT !.read_duration = Append(@, duration)])

Prometheus_record_write_time(c, duration) ==
  Ok([c EXCEPT !.write_duration = Append(@, duration)])

Prometheus_record_feature_count(c, count) ==
  Ok([c EXCEPT !.feature_count_gauge = count])

Prometheus_record_file_sizes(c, input_mb, output_mb) ==
  Ok([c EXCEPT !.input_size_gauge = input_mb, !.output_size_gauge = output_mb])

\* mutation of Null_pass: the method is left as the abstract stub it overrides
Null_pass_abstract(c) ==
  [c |-> c, exc |-> [type |-> "NotImplementedError", msg |-> <<>>, id |-> 0]]

\* NullCollector: every method is pass
Null_pass(c) == Ok(c)

\* a MetricsCollector subclass of the caller's: raises holds the methods
\* that raise, the others do nothing
CustomCollector(raises) == [NewCollector("custom", "None") EXCEPT !.raises = raises]
CollectorError(op) == [type |-> "RuntimeError", msg |-> <<"collector", op>>, id |-> 0]
Custom_record(c, op) ==
  IF op \in c.raises THEN [c |-> c, exc |-> CollectorError(op)] ELSE Ok(c)

\* StatsDCollector: client is the packets sent; timings are in milliseconds
MsPerSecond == 1000
Send(c, type, name, value) ==
  [c EXCEPT !.client = Append(@, [type |-> type, name |-> name, value |-> value])]

StatsD_record_conversion_start(c) == Ok(c)

StatsD_record_conversion_success(c, duration) ==
  Ok(Send(Send(c, "incr", "conversion.success", 1),
          "timing", "conversion.duration", duration * MsPerSecond))

StatsD_record_conversion_failure(c) ==
  Ok(Send(c, "incr", "conversion.failure", 1))

StatsD_record_read_time(c, duration) ==
  Ok(Send(c, "timing", "read.duration", duration * MsPerSecond))

StatsD_record_write_time(c, duration) ==
  Ok(Send(c, "timing", "write.duration", duration * MsPerSecond))

StatsD_record_feature_count(c, count) ==
  Ok(Send(c, "gauge", "feature.count", count))

StatsD_record_file_sizes(c, input_mb, output_mb) ==
  Ok(Send(Send(c, "gauge", "input.size_mb", input_mb),
          "gauge", "output.size_mb", output_mb))

\* the seven operations of MetricsCollector, dispatched on the object's class
\* (every NullCollector method is pass)
record_conversion_start(c, now) ==
  CASE c.kind = "json" -> JsonLog_record_conversion_start(c, now)
    [] c.kind = "prometheus" -> Prometheus_record_conversion_start(c)
    [] c.kind = "statsd" -> StatsD_record_conversion_start(c)
    [] c.kind = "null" -> Null_pass(c)
    [] c.kind = "custom" -> Custom_record(c, "start")
    [] OTHER -> Ok(c)

record_conversion_success(c, duration, metadata, env) ==
  CASE c.kind = "json" -> JsonLog_record_conversion_success(c, duration, metadata, env)
    [] c.kind = "prometheus" -> Prometheus_record_conversion_success(c, duration)
    [] c.kind = "statsd" -> StatsD_record_conversion_success(c, duration)
    [] c.kind = "null" -> Null_pass(c)
    [] c.kind = "custom" -> Custom_record(c, "success")
    [] OTHER -> Ok(c)

record_conversion_failure(c, error, env) ==
  CASE c.kind = "json" -> JsonLog_record_conversion_failure(c, error, env)
    [] c.kind = "prometheus" -> Prometheus_record_conversion_failure(c)
    [] c.kind = "statsd" -> StatsD_record_conversion_failure(c)
    [] c.kind = "null" -> Null_pass(c)
    [] c.kind = "custom" -> Custom_record(c, "failure")
    [] OTHER -> Ok(c)

record_read_time(c, duration) ==
  CASE c.kind = "json" -> JsonLog_record_read_time(c, duration)
    [] c.kind = "prometheus" -> Prometheus_record_read_time(c, duration)
    [] c.kind = "statsd" -> StatsD_record_read_time(c, duration)
    [] c.kind = "null" -> Null_pass(c)
    [] c.kind = "custom" -> Custom_record(c, "read_time")
    [] OTHER -> Ok(c)

record_write_time(c, duration) ==
  CASE c.kind = "json" -> JsonLog_record_write_time(c, duration)
    [] c.kind = "prometheus" -> Prometheus_record_write_time(c, duration)
    [] c.kind = "statsd" -> StatsD_record_write_time(c, duration)
    [] c.kind = "null" -> Null_pass(c)
    [] c.kind = "custom" -> Custom_record(c, "write_time")
    [] OTHER -> Ok(c)

record_feature_count(c, count) ==
  CASE c.kind = "json" -> JsonLog_record_feature_count(c, count)
    [] c.kind = "prometheus" -> Prometheus_record_feature_count(c, count)
    [] c.kind = "statsd" -> StatsD_record_feature_count(c, count)
    [] c.kind = "null" -> Null_pass(c)
    [] c.kind = "custom" -> Custom_record(c, "feature_count")
    [] OTHER -> Ok(c)

record_file_sizes(c, input_mb, output_mb) ==
  CASE c.kind = "json" -> JsonLog_record_file_sizes(c, input_mb, output_mb)
    [] c.kind = "prometheus" -> Prometheus_record_file_sizes(c, input_mb, output_mb)
    [] c.kind = "statsd" -> StatsD_record_file_sizes(c, input_mb, output_mb)
    [] c.kind = "null" -> Null_pass(c)
    [] c.kind = "custom" -> Custom_record(c, "file_sizes")
    [] OTHER -> Ok(c)

\* ------------------------------------------------------------------ state
VARIABLES
  coll,     \* the collector objects
  fs,       \* the file system: what each path holds
  clock,    \* time.time(), in seconds
  threads,  \* the threads that call convert_shapefile
  uses,     \* the collector each thread passes
  pc,       \* where each thread is in convert_shapefile
  frame,    \* the arguments and locals of each thread's call
  trace,    \* what the call has done so far: collector calls and file I/O
  outcome,  \* how the thread's last call ended
  calls,    \* the calls each thread has made
  finished, \* per caller-held collector: the conversions that returned and
            \* the conversions that raised, so far
  mainpc,   \* where main() is ("lib": the caller is a library user)
  args      \* main's parsed arguments and what it finds installed

vars == <<coll, fs, clock, threads, uses, pc, frame, trace, outcome, calls,
          finished, mainpc, args>>
cfgVars == <<threads, uses>>
mainVars == <<mainpc, args>>

Paths == MainInputs \cup {OutGiven} \cup {with_suffix(q) : q \in MainInputs}

\* output_path=None
NonePath == <<>>

Frame0 ==
  [input_path |-> NonePath, output_path |-> NonePath, metrics |-> 0,
   total_start |-> 0, input_size_mb |-> <<0, 1>>, read_start |-> 0,
   gdf |-> NoTable, read_time |-> 0, feature_count |-> 0, write_start |-> 0,
   write_time |-> 0, output_size_mb |-> <<0, 1>>, total_time |-> 0,
   metadata |-> [k \in {} |-> 0], e |-> NoExc]

NoOutcome == [kind |-> "none", error |-> NoExc]
Returned == [kind |-> "returned", error |-> NoExc]
Raised(e) == [kind |-> "raised", error |-> e]

NoArgs == [input |-> NonePath, output |-> NonePath, metrics |-> "none",
           metrics_file |-> "None", construct |-> "ok"]

\* one entry of trace
Event(op, a, r) == [kind |-> "event", op |-> op, args |-> a, ok |-> r.exc = NoExc]
IO(op, path, ok) == [kind |-> "io", op |-> op, args |-> <<path>>, ok |-> ok]

\* the conversion a thread is in, for _write_record's bookkeeping
Who(p) == <<p, calls[p]>>

\* the call of thread p ends (how: "returned" or "raised"); the collector
\* made for metrics=None is dropped with the call and is not tallied
Finish(p, how) ==
  finished' = IF frame[p].metrics = 0 THEN finished
              ELSE [finished EXCEPT ![frame[p].metrics][how] = @ + 1]

\* ------------------------------------------------------- convert_shapefile
\* mutation of Invoke: every call reports to one module-wide collector, the
\* first that was constructed, whatever collector it was given
Invoke_singleton(p, input_path, output_path, m) ==
  /\ pc[p] \in {"idle", "done"}
  /\ frame' = [frame EXCEPT ![p] =
       [Frame0 EXCEPT !.input_path = input_path, !.output_path = output_path,
                      !.metrics = IF m.given THEN 1 ELSE 0]]
  /\ coll' = IF m.given THEN coll ELSE [coll EXCEPT ![0] = NullCollector]
  /\ trace' = [trace EXCEPT ![p] = <<>>]
  /\ outcome' = [outcome EXCEPT ![p] = NoOutcome]
  /\ calls' = [calls EXCEPT ![p] = @ + 1]
  /\ pc' = [pc EXCEPT ![p] = "start"]

\* the call itself; metrics=None becomes a fresh NullCollector
Invoke(p, input_path, output_path, m) ==
  /\ pc[p] \in {"idle", "done"}
  /\ frame' = [frame EXCEPT ![p] =
       [Frame0 EXCEPT !.input_path = input_path, !.output_path = output_path,
                      !.metrics = IF m.given THEN m.inst ELSE 0]]
  /\ coll' = IF m.given THEN coll ELSE [coll EXCEPT ![0] = NullCollector]
  /\ trace' = [trace EXCEPT ![p] = <<>>]
  /\ outcome' = [outcome EXCEPT ![p] = NoOutcome]
  /\ calls' = [calls EXCEPT ![p] = @ + 1]
  /\ pc' = [pc EXCEPT ![p] = "start"]

\* a library caller's call; it names its output file (output_path=None is
\* what main and the concurrent callers pass)
Call(p) ==
  /\ mainpc = "lib"
  /\ p \in threads
  /\ calls[p] < MaxCalls
  /\ \E input_path \in InputPaths, output_path \in {OutGiven},
        m \in {[given |-> FALSE, inst |-> 0], [given |-> TRUE, inst |-> uses[p]]} :
       Invoke(p, input_path, output_path, m)
  /\ UNCHANGED <<fs, clock, cfgVars, finished, mainVars>>

\* metrics.record_conversion_start(); total_start = time.time()
\* (before the try: what it raises is not reported)
EmitStart(p) ==
  /\ pc[p] = "start"
  /\ LET m == frame[p].metrics
         r == record_conversion_start(coll[m], clock)
     IN /\ coll' = [coll EXCEPT ![m] = r.c]
        /\ trace' = [trace EXCEPT ![p] = Append(@, Event("start", <<>>, r))]
        /\ IF r.exc = NoExc
           THEN /\ frame' = [frame EXCEPT ![p].total_start = clock]
                /\ pc' = [pc EXCEPT ![p] = "resolve"]
                /\ UNCHANGED <<outcome, finished>>
           ELSE /\ outcome' = [outcome EXCEPT ![p] = Raised(r.exc)]
                /\ pc' = [pc EXCEPT ![p] = "done"]
                /\ Finish(p, "raised")
                /\ UNCHANGED frame
  /\ UNCHANGED <<fs, clock, cfgVars, calls, mainVars>>

\* if output_path is None: output_path = Path(input_path).with_suffix('.geojson')
ResolveOutput(p) ==
  /\ pc[p] = "resolve"
  /\ frame' = [frame EXCEPT ![p].output_path =
                 IF @ = NonePath THEN with_suffix(frame[p].input_path) ELSE @]
  /\ pc' = [pc EXCEPT ![p] = "stat_in"]
  /\ UNCHANGED <<coll, fs, clock, cfgVars, finished, trace, outcome, calls, mainVars>>

\* an exception inside the try: on to the except clause
Fail(p, e) ==
  /\ frame' = [frame EXCEPT ![p].e = e]
  /\ pc' = [pc EXCEPT ![p] = "except"]

\* input_size_mb = os.path.getsize(input_path) / 1024 / 1024
StatInput(p) ==
  /\ pc[p] = "stat_in"
  /\ LET f == fs[frame[p].input_path]
     IN IF f.kind = "absent"
        THEN /\ Fail(p, Exc("FileNotFoundError", "No such file", frame[p].input_path))
             /\ trace' = [trace EXCEPT ![p] =
                  Append(@, IO("stat", frame[p].input_path, FALSE))]
        ELSE /\ frame' = [frame EXCEPT ![p].input_size_mb = SizeMB(f.bytes)]
             /\ pc' = [pc EXCEPT ![p] = "read_begin"]
             /\ trace' = [trace EXCEPT ![p] =
                  Append(@, IO("stat", frame[p].input_path, TRUE))]
  /\ UNCHANGED <<coll, fs, clock, cfgVars, finished, outcome, calls, mainVars>>

\* read_start = time.time()
ReadBegin(p) ==
  /\ pc[p] = "read_begin"
  /\ frame' = [frame EXCEPT ![p].read_start = clock]
  /\ pc' = [pc EXCEPT ![p] = "read"]
  /\ UNCHANGED <<coll, fs, clock, cfgVars, finished, trace, outcome, calls, mainVars>>

\* blocking I/O takes time: it ends within the second it began in, or in
\* the next one
Delays == {0, 1}
Elapse == \E dt \in Delays : clock' = clock + dt

\* mutation of ReadFile: a read that fails is tried once more before the
\* error is let through
ReadFile_retry(p) ==
  /\ pc[p] = "read"
  /\ Elapse
  /\ LET f == fs[frame[p].input_path]
         tried == \E k \in 1..Len(trace[p]) : trace[p][k].op = "read"
     IN IF f.kind \in {"shapefile", "geojson"}
        THEN /\ frame' = [frame EXCEPT ![p].gdf = f.table]
             /\ pc' = [pc EXCEPT ![p] = "read_end"]
             /\ trace' = [trace EXCEPT ![p] =
                  Append(@, IO("read", frame[p].input_path, TRUE))]
        ELSE /\ IF tried
                THEN Fail(p, Exc("DataSourceError", "not recognized",
                                 frame[p].input_path))
                ELSE UNCHANGED <<frame, pc>>
             /\ trace' = [trace EXCEPT ![p] =
                  Append(@, IO("read", frame[p].input_path, FALSE))]
  /\ UNCHANGED <<coll, fs, cfgVars, finished, outcome, calls, mainVars>>

\* gdf = gpd.read_file(input_path)
ReadFile(p) ==
  /\ pc[p] = "read"
  /\ Elapse
  /\ LET f == fs[frame[p].input_path]
     IN IF f.kind \in {"shapefile", "geojson"}
        THEN /\ frame' = [frame EXCEPT ![p].gdf = f.table]
             /\ pc' = [pc EXCEPT ![p] = "read_end"]
             /\ trace' = [trace EXCEPT ![p] =
                  Append(@, IO("read", frame[p].input_path, TRUE))]
        ELSE /\ Fail(p, Exc("DataSourceError", "not recognized", frame[p].input_path))
             /\ trace' = [trace EXCEPT ![p] =
                  Append(@, IO("read", frame[p].input_path, FALSE))]
  /\ UNCHANGED <<coll, fs, cfgVars, finished, outcome, calls, mainVars>>

\* a collector call inside the try: the object changes, the call is noted,
\* and what it raises goes to the except clause
Emit(p, ev, r, next, fr) ==
  /\ coll' = [coll EXCEPT ![frame[p].metrics] = r.c]
  /\ trace' = [trace EXCEPT ![p] = Append(@, ev)]
  /\ IF r.exc = NoExc
     THEN /\ frame' = [frame EXCEPT ![p] = fr]
          /\ pc' = [pc EXCEPT ![p] = next]
     ELSE /\ frame' = [frame EXCEPT ![p] = [fr EXCEPT !.e = r.exc]]
          /\ pc' = [pc EXCEPT ![p] = "except"]

\* read_time = time.time() - read_start; metrics.record_read_time(read_time)
ReadEnd(p) ==
  /\ pc[p] = "read_end"
  /\ LET read_time == clock - frame[p].read_start
         r == record_read_time(coll[frame[p].metrics], read_time)
     IN Emit(p, Event("read_time", <<read_time>>, r), r, "feature_count",
             [frame[p] EXCEPT !.read_time = read_time])
  /\ UNCHANGED <<fs, clock, cfgVars, finished, outcome, calls, mainVars>>

\* mutation of len(gdf): the columns are counted (len(gdf.columns))
len_columns(gdf) == Cardinality(gdf.cols)

\* len(gdf)
len(gdf) == gdf.rows

\* feature_count = len(gdf); metrics.record_feature_count(feature_count)
EmitFeatureCount(p) ==
  /\ pc[p] = "feature_count"
  /\ LET feature_count == len(frame[p].gdf)
         r == record_feature_count(coll[frame[p].metrics], feature_count)
     IN Emit(p, Event("feature_count", <<feature_count>>, r), r, "write_begin",
             [frame[p] EXCEPT !.feature_count = feature_count])
  /\ UNCHANGED <<fs, clock, cfgVars, finished, outcome, calls, mainVars>>

\* write_start = time.time()
WriteBegin(p) ==
  /\ pc[p] = "write_begin"
  /\ frame' = [frame EXCEPT ![p].write_start = clock]
  /\ pc' = [pc EXCEPT ![p] = "write"]
  /\ UNCHANGED <<coll, fs, clock, cfgVars, finished, trace, outcome, calls, mainVars>>

\* gdf.to_file(output_path, driver='GeoJSON'): the file is written, or the
\* path cannot be written and nothing is
WriteFile(p) ==
  /\ pc[p] = "write"
  /\ Elapse
  /\ \/ /\ fs' = [fs EXCEPT ![frame[p].output_path] = GeoJSONFile(frame[p].gdf)]
        /\ frame' = frame
        /\ pc' = [pc EXCEPT ![p] = "write_end"]
        /\ trace' = [trace EXCEPT ![p] =
             Append(@, IO("write", frame[p].output_path, TRUE))]
     \/ /\ Fail(p, Exc("PermissionError", "cannot write", frame[p].output_path))
        /\ fs' = fs
        /\ trace' = [trace EXCEPT ![p] =
             Append(@, IO("write", frame[p].output_path, FALSE))]
  /\ UNCHANGED <<coll, cfgVars, finished, outcome, calls, mainVars>>

\* mutation of WriteEnd: the pipeline forgets record_write_time
WriteEnd_silent(p) ==
  /\ pc[p] = "write_end"
  /\ frame' = [frame EXCEPT ![p].write_time = clock - frame[p].write_start]
  /\ pc' = [pc EXCEPT ![p] = "stat_out"]
  /\ UNCHANGED <<coll, fs, clock, cfgVars, finished, trace, outcome, calls, mainVars>>

\* write_time = time.time() - write_start; metrics.record_write_time(write_time)
WriteEnd(p) ==
  /\ pc[p] = "write_end"
  /\ LET write_time == clock - frame[p].write_start
         r == record_write_time(coll[frame[p].metrics], write_time)
     IN Emit(p, Event("write_time", <<write_time>>, r), r, "stat_out",
             [frame[p] EXCEPT !.write_time = write_time])
  /\ UNCHANGED <<fs, clock, cfgVars, finished, outcome, calls, mainVars>>

\* output_size_mb = os.path.getsize(output_path) / 1024 / 1024;
\* metrics.record_file_sizes(input_size_mb, output_size_mb).  The file is
\* there, or something else removed it since it was written.
StatOutput(p) ==
  /\ pc[p] = "stat_out"
  /\ \/ /\ fs[frame[p].output_path].kind # "absent"
        /\ LET output_size_mb == SizeMB(fs[frame[p].output_path].bytes)
               r == record_file_sizes(coll[frame[p].metrics],
                                      frame[p].input_size_mb, output_size_mb)
           IN /\ coll' = [coll EXCEPT ![frame[p].metrics] = r.c]
              /\ trace' = [trace EXCEPT ![p] =
                   @ \o <<IO("stat", frame[p].output_path, TRUE),
                          Event("file_sizes",
                                <<frame[p].input_size_mb, output_size_mb>>, r)>>]
              /\ IF r.exc = NoExc
                 THEN /\ frame' = [frame EXCEPT ![p].output_size_mb = output_size_mb]
                      /\ pc' = [pc EXCEPT ![p] = "success"]
                 ELSE Fail(p, r.exc)
        /\ fs' = fs
     \/ /\ fs' = [fs EXCEPT ![frame[p].output_path] = Absent]
        /\ Fail(p, Exc("FileNotFoundError", "No such file", frame[p].output_path))
        /\ trace' = [trace EXCEPT ![p] =
             Append(@, IO("stat", frame[p].output_path, FALSE))]
        /\ coll' = coll
  /\ UNCHANGED <<clock, cfgVars, finished, outcome, calls, mainVars>>

\* the metadata dict of a call
Metadata(f) ==
  ("input_file" :> PathStr(f.input_path))
    @@ ("output_file" :> PathStr(f.output_path))
    @@ ("feature_count" :> f.feature_count)
    @@ ("input_size_mb" :> f.input_size_mb)
    @@ ("output_size_mb" :> f.output_size_mb)
    @@ ("crs" :> CrsStr(f.gdf.crs))

\* total_time = time.time() - total_start; metadata = {...};
\* metrics.record_conversion_success(total_time, metadata)
EmitSuccess(p) ==
  /\ pc[p] = "success"
  /\ \E ok \in BOOLEAN :
       LET total_time == clock - frame[p].total_start
           metadata == Metadata(frame[p])
           r == record_conversion_success(coll[frame[p].metrics], total_time,
                                          metadata, [ok |-> ok, who |-> Who(p)])
       IN Emit(p, Event("success", <<total_time, metadata>>, r), r, "return",
               [frame[p] EXCEPT !.total_time = total_time, !.metadata = metadata])
  /\ UNCHANGED <<fs, clock, cfgVars, finished, outcome, calls, mainVars>>

\* the three prints; return True
Return(p) ==
  /\ pc[p] = "return"
  /\ outcome' = [outcome EXCEPT ![p] = Returned]
  /\ Finish(p, "returned")
  /\ pc' = [pc EXCEPT ![p] = "done"]
  /\ UNCHANGED <<coll, fs, clock, cfgVars, frame, trace, calls, mainVars>>

\* except Exception as e: metrics.record_conversion_failure(str(e)); what
\* that call raises leaves the except clause in place of e
EmitFailure(p) ==
  /\ pc[p] = "except"
  /\ \E ok \in BOOLEAN :
       LET m == frame[p].metrics
           r == record_conversion_failure(coll[m], ExcStr(frame[p].e),
                                          [ok |-> ok, who |-> Who(p)])
       IN /\ coll' = [coll EXCEPT ![m] = r.c]
          /\ trace' = [trace EXCEPT ![p] =
               Append(@, Event("failure", <<ExcStr(frame[p].e)>>, r))]
          /\ IF r.exc = NoExc
             THEN /\ pc' = [pc EXCEPT ![p] = "reraise"]
                  /\ UNCHANGED <<outcome, finished>>
             ELSE /\ pc' = [pc EXCEPT ![p] = "done"]
                  /\ outcome' = [outcome EXCEPT ![p] = Raised(r.exc)]
                  /\ Finish(p, "raised")
  /\ UNCHANGED <<fs, clock, cfgVars, frame, calls, mainVars>>

\* mutation of Reraise: the except clause ends without raise, and the call
\* returns
Reraise_swallow(p) ==
  /\ pc[p] = "reraise"
  /\ outcome' = [outcome EXCEPT ![p] = Returned]
  /\ Finish(p, "returned")
  /\ pc' = [pc EXCEPT ![p] = "done"]
  /\ UNCHANGED <<coll, fs, clock, cfgVars, frame, trace, calls, mainVars>>

\* mutation of Reraise: the except clause spins in place and never raises
Reraise_spin(p) ==
  /\ pc[p] = "reraise"
  /\ UNCHANGED vars

\* print(f"Error during conversion: ..."); raise
Reraise(p) ==
  /\ pc[p] = "reraise"
  /\ outcome' = [outcome EXCEPT ![p] = Raised(frame[p].e)]
  /\ Finish(p, "raised")
  /\ pc' = [pc EXCEPT ![p] = "done"]
  /\ UNCHANGED <<coll, fs, clock, cfgVars, frame, trace, calls, mainVars>>

Step(p) ==
  \/ EmitStart(p) \/ ResolveOutput(p) \/ StatInput(p) \/ ReadBegin(p)
  \/ ReadFile(p) \/ ReadEnd(p) \/ EmitFeatureCount(p) \/ WriteBegin(p)
  \/ WriteFile(p) \/ WriteEnd(p) \/ StatOutput(p) \/ EmitSuccess(p)
  \/ Return(p) \/ EmitFailure(p) \/ Reraise(p)

\* ------------------------------------------------------------------- main
MetricsChoices == {"none", "prometheus", "json", "statsd"}

\* args = parser.parse_args(); args.construct is what the constructor of the
\* chosen collector will meet: "ok", "ImportError" (the client library is not
\* installed) or "OSError" (the port or the host cannot be opened)
MainParse ==
  /\ mainpc = "parse"
  /\ \E input \in MainInputs, output \in {NonePath, OutGiven},
        metrics \in MetricsChoices, metrics_file \in {"None", MetricsFile},
        construct \in {"ok", "ImportError", "OSError"} :
       /\ metrics \in {"none", "json"} => construct = "ok"
       /\ args' = [input |-> input, output |-> output, metrics |-> metrics,
                   metrics_file |-> metrics_file, construct |-> construct]
  /\ mainpc' = "construct"
  /\ UNCHANGED <<coll, fs, clock, cfgVars, finished, pc, frame, trace, outcome, calls>>

\* mutation of Construct: when the constructor fails main goes on without
\* metrics (metrics = NullCollector()) in place of giving up
Construct_fallback(a) ==
  IF a.construct = "ok"
  THEN CASE a.metrics = "prometheus" -> [c |-> PrometheusCollector, next |-> "convert"]
         [] a.metrics = "json" -> [c |-> JsonLogCollector(a.metrics_file), next |-> "convert"]
         [] a.metrics = "statsd" -> [c |-> StatsDCollector, next |-> "convert"]
         [] OTHER -> [c |-> NullCollector, next |-> "convert"]
  ELSE [c |-> NullCollector, next |-> "convert"]

\* the collector main builds for --metrics, and where main goes next:
\* "convert", "returned" (except ImportError: return) or "crashed" (any
\* other exception leaves main)
Construct(a) ==
  CASE a.metrics = "prometheus" ->
         IF a.construct = "ok" THEN [c |-> PrometheusCollector, next |-> "convert"]
         ELSE IF a.construct = "ImportError" THEN [c |-> Unconstructed, next |-> "returned"]
         ELSE [c |-> Unconstructed, next |-> "crashed"]
    [] a.metrics = "json" ->
         [c |-> JsonLogCollector(a.metrics_file), next |-> "convert"]
    [] a.metrics = "statsd" ->
         IF a.construct = "ok" THEN [c |-> StatsDCollector, next |-> "convert"]
         ELSE IF a.construct = "ImportError" THEN [c |-> Unconstructed, next |-> "returned"]
         ELSE [c |-> Unconstructed, next |-> "crashed"]
    [] OTHER -> [c |-> NullCollector, next |-> "convert"]

MainConstruct ==
  /\ mainpc = "construct"
  /\ coll' = [coll EXCEPT ![1] = Construct(args).c]
  /\ mainpc' = Construct(args).next
  /\ UNCHANGED <<fs, clock, cfgVars, finished, pc, frame, trace, outcome, calls, args>>

\* convert_shapefile(args.input, args.output, metrics)
MainConvert ==
  /\ mainpc = "convert"
  /\ Invoke(1, args.input, args.output, [given |-> TRUE, inst |-> 1])
  /\ mainpc' = "converting"
  /\ UNCHANGED <<fs, clock, cfgVars, finished, args>>

\* convert_shapefile is back: main returns, or the exception leaves main
MainEnd ==
  /\ mainpc = "converting"
  /\ pc[1] = "done"
  /\ mainpc' = IF outcome[1].kind = "returned" THEN "returned" ELSE "crashed"
  /\ UNCHANGED <<coll, fs, clock, cfgVars, finished, pc, frame, trace, outcome, calls, args>>

\* ---------------------------------------------------------- specification
\* the collectors a library caller may have constructed
Collectors ==
  {NullCollector, JsonLogCollector("None"), JsonLogCollector(MetricsFile),
   PrometheusCollector, StatsDCollector}

InitCommon ==
  /\ fs = [q \in Paths |-> InitialFs(q)]
  /\ clock = 0
  /\ pc = [p \in Procs |-> "idle"]
  /\ frame = [p \in Procs |-> Frame0]
  /\ trace = [p \in Procs |-> <<>>]
  /\ outcome = [p \in Procs |-> NoOutcome]
  /\ calls = [p \in Procs |-> 0]
  /\ finished = [i \in Insts |-> [returned |-> 0, raised |-> 0]]
  /\ args = NoArgs

\* one thread: either a library caller that holds one constructed collector
\* and converts up to MaxCalls times, or the command line (main)
Init ==
  /\ InitCommon
  /\ threads = {1}
  /\ uses = [p \in Procs |-> 1]
  /\ \/ /\ mainpc = "lib"
        /\ \E k \in Collectors :
             coll = [i \in Insts |->
                       IF i = 0 THEN NullCollector
                       ELSE IF i = 1 THEN k ELSE Unconstructed]
     \/ /\ mainpc = "parse"
        /\ coll = [i \in Insts |-> IF i = 0 THEN NullCollector ELSE Unconstructed]

Next ==
  \/ MainParse
  \/ MainConstruct
  \/ MainConvert
  \/ MainEnd
  \/ \E p \in Procs : Call(p) \/ Step(p)

Spec == Init /\ [][Next]_vars

\* a caller of the collector interface itself: any operation, any arguments,
\* any order, before the thread's first conversion
OpDurations == {0, 1}
OpCounts == {0, 2}
OpSizes == {SizeMB(0), SizeMB(310)}
OpErrors == {ExcStr(Exc("ValueError", "bad", InBad))}
OpMetadata == {[k \in {} |-> 0], Metadata(Frame0)}

Direct(p, op, a, r) ==
  /\ coll' = [coll EXCEPT ![uses[p]] = r.c]
  /\ trace' = [trace EXCEPT ![p] = Append(@, Event(op, a, r))]

DirectOp(p) ==
  /\ mainpc = "lib"
  /\ p \in threads
  /\ pc[p] = "idle"
  /\ Len(trace[p]) < MaxOps
  /\ LET c == coll[uses[p]]
     IN \/ Direct(p, "start", <<>>, record_conversion_start(c, clock))
        \/ \E d \in OpDurations, md \in OpMetadata, ok \in BOOLEAN :
             Direct(p, "success", <<d, md>>,
                    record_conversion_success(c, d, md, [ok |-> ok, who |-> Who(p)]))
        \/ \E er \in OpErrors, ok \in BOOLEAN :
             Direct(p, "failure", <<er>>,
                    record_conversion_failure(c, er, [ok |-> ok, who |-> Who(p)]))
        \/ \E d \in OpDurations :
             Direct(p, "read_time", <<d>>, record_read_time(c, d))
        \/ \E d \in OpDurations :
             Direct(p, "write_time", <<d>>, record_write_time(c, d))
        \/ \E n \in OpCounts :
             Direct(p, "feature_count", <<n>>, record_feature_count(c, n))
        \/ \E x \in OpSizes, y \in OpSizes :
             Direct(p, "file_sizes", <<x, y>>, record_file_sizes(c, x, y))
  /\ UNCHANGED <<fs, clock, cfgVars, finished, pc, frame, outcome, calls, mainVars>>

\* a library caller that holds a NullCollector
InitNull ==
  /\ InitCommon
  /\ threads = {1}
  /\ uses = [p \in Procs |-> 1]
  /\ mainpc = "lib"
  /\ coll = [i \in Insts |-> IF i \in {0, 1} THEN NullCollector ELSE Unconstructed]

NextNull == \E p \in Procs : DirectOp(p) \/ Call(p) \/ Step(p)

SpecNull == InitNull /\ [][NextNull]_vars

\* two threads convert at the same time, each with a JsonLogCollector of its
\* own that appends to a file (a write that goes through behaves as a print)
InitConc ==
  /\ InitCommon
  /\ threads = {1, 2}
  /\ uses = [p \in Procs |-> p]
  /\ mainpc = "lib"
  /\ coll = [i \in Insts |->
               IF i = 0 THEN NullCollector
               ELSE IF i \in threads THEN JsonLogCollector(MetricsFile)
               ELSE Unconstructed]

\* one conversion of each thread, with the thread's collector
CallOnce(p) ==
  /\ mainpc = "lib"
  /\ p \in threads
  /\ calls[p] = 0
  /\ \E input_path \in InputPaths, output_path \in {NonePath, OutGiven} :
       Invoke(p, input_path, output_path, [given |-> TRUE, inst |-> uses[p]])
  /\ UNCHANGED <<fs, clock, cfgVars, finished, mainVars>>

NextConc == \E p \in Procs : CallOnce(p) \/ Step(p)

SpecConc == InitConc /\ [][NextConc]_vars

\* a library caller whose collector raises: a subclass of its own with one
\* method that raises, or a JsonLogCollector on a file that may not be
\* writable
CollectorOps ==
  {"start", "read_time", "feature_count", "write_time", "file_sizes", "success",
   "failure"}

InitRaising ==
  /\ InitCommon
  /\ threads = {1}
  /\ uses = [p \in Procs |-> 1]
  /\ mainpc = "lib"
  /\ \E k \in {CustomCollector({op}) : op \in CollectorOps}
              \cup {JsonLogCollector(MetricsFile)} :
       coll = [i \in Insts |->
                 IF i = 0 THEN NullCollector
                 ELSE IF i = 1 THEN k ELSE Unconstructed]

NextRaising == \E p \in Procs : Call(p) \/ Step(p)

SpecRaising == InitRaising /\ [][NextRaising]_vars

\* two threads convert at the same time and pass the same JsonLogCollector,
\* which prints its records
InitShared ==
  /\ InitCommon
  /\ threads = {1, 2}
  /\ uses = [p \in Procs |-> 1]
  /\ mainpc = "lib"
  /\ coll = [i \in Insts |->
               IF i = 0 THEN NullCollector
               ELSE IF i = 1 THEN JsonLogCollector("None")
               ELSE Unconstructed]

\* one conversion of each thread, with the shared collector and a named
\* output file
CallShared(p) ==
  /\ mainpc = "lib"
  /\ p \in threads
  /\ calls[p] = 0
  /\ \E input_path \in InputPaths :
       Invoke(p, input_path, OutGiven, [given |-> TRUE, inst |-> uses[p]])
  /\ UNCHANGED <<fs, clock, cfgVars, finished, mainVars>>

NextShared == \E p \in Procs : CallShared(p) \/ Step(p)

SpecShared == InitShared /\ [][NextShared]_vars

\* a library caller whose JsonLogCollector appends to a file that already
\* holds a line, written before this process started
PriorLine ==
  [by |-> <<0, 0>>, ok |-> TRUE,
   line |-> ("timestamp" :> strftime(0)) @@ ("event" :> "conversion_success")]

InitAppend ==
  /\ InitCommon
  /\ threads = {1}
  /\ uses = [p \in Procs |-> 1]
  /\ mainpc = "lib"
  /\ coll = [i \in Insts |->
               IF i = 0 THEN NullCollector
               ELSE IF i = 1
                    THEN [JsonLogCollector(MetricsFile) EXCEPT !.written = <<PriorLine>>]
                    ELSE Unconstructed]

NextAppend == \E p \in Procs : Call(p) \/ Step(p)

SpecAppend == InitAppend /\ [][NextAppend]_vars

\* one call of convert_shapefile, with any collector (a shipped one, or one
\* with a method that raises), in which every step that is under way is
\* taken in the end: each stat, read, write and collector call returns or
\* raises
InitOne ==
  /\ InitCommon
  /\ threads = {1}
  /\ uses = [p \in Procs |-> 1]
  /\ mainpc = "lib"
  /\ \E k \in Collectors \cup {CustomCollector({op}) : op \in CollectorOps} :
       coll = [i \in Insts |->
                 IF i = 0 THEN NullCollector
                 ELSE IF i = 1 THEN k ELSE Unconstructed]

NextOne == \E p \in Procs : CallOnce(p) \/ Step(p)

Fairness == \A p \in Procs : WF_vars(Step(p))

FairSpec == InitOne /\ [][NextOne]_vars /\ Fairness

\* ------------------------------------------------------------- properties
\* the collector calls of a thread's current (or last) call, in order
IsEvent(e) == e.kind = "event"
Events(p) == SelectSeq(trace[p], IsEvent)
OpsOf(s) == [k \in 1..Len(s) |-> s[k].op]
CountOp(p, op) ==
  Cardinality({k \in 1..Len(trace[p]) : IsEvent(trace[p][k]) /\ trace[p][k].op = op})
LastOf(s) == s[Len(s)]
\* a step of the pipeline after start failed: file I/O, or a collector call
\* other than the terminal failure
StepFailed(p) ==
  \E k \in 1..Len(trace[p]) :
    /\ ~trace[p][k].ok
    /\ ~(IsEvent(trace[p][k]) /\ trace[p][k].op \in {"start", "failure"})

SuccessOrder ==
  <<"start", "read_time", "feature_count", "write_time", "file_sizes", "success">>

\* C1: a call that returns has made exactly one success call and no failure
\* call on its collector; a call that ends with an error has made exactly
\* one failure call and no success call.
C1_OneTerminalEvent ==
  \A p \in Procs :
    /\ outcome[p].kind = "returned" =>
         CountOp(p, "success") = 1 /\ CountOp(p, "failure") = 0
    /\ outcome[p].kind = "raised" =>
         CountOp(p, "failure") = 1 /\ CountOp(p, "success") = 0

\* C2: a call that returns has made exactly the calls start, read_time,
\* feature_count, write_time, file_sizes, success on its collector, in this
\* order; start came before any file was touched and success came last.
C2_SuccessSequence ==
  \A p \in Procs :
    outcome[p].kind = "returned" =>
      /\ OpsOf(Events(p)) = SuccessOrder
      /\ IsEvent(trace[p][1]) /\ trace[p][1].op = "start"
      /\ IsEvent(LastOf(trace[p])) /\ LastOf(trace[p]).op = "success"

C2_Witness ==
  \E p \in Procs : pc[p] = "done" /\ outcome[p].kind = "returned"

\* C3: once failure has been reported the call never returns normally, and
\* a call in which a step after start failed ends by reporting failure,
\* once and last, and raising.
C3_FailureReportedThenPropagated ==
  \A p \in Procs :
    /\ CountOp(p, "failure") > 0 =>
         /\ outcome[p].kind # "returned"
         /\ pc[p] = "done" => outcome[p].kind = "raised"
    /\ (pc[p] = "done" /\ StepFailed(p)) =>
         /\ CountOp(p, "failure") = 1
         /\ LastOf(trace[p]).op = "failure"
         /\ outcome[p].kind = "raised"

C3_Witness ==
  \E p \in Procs :
    /\ pc[p] = "done" /\ outcome[p].kind = "raised"
    /\ StepFailed(p) /\ LastOf(trace[p]).op = "failure" /\ LastOf(trace[p]).ok

\* C4: the error a failed call raises is the error that was caught, and the
\* message given to record_conversion_failure is its string form.
C4_ErrorUnchanged ==
  \A p \in Procs :
    (pc[p] = "done" /\ outcome[p].kind = "raised" /\ CountOp(p, "failure") > 0) =>
      /\ outcome[p].error = frame[p].e
      /\ LastOf(trace[p]).args = <<ExcStr(frame[p].e)>>

\* C5: a call whose input path names no file reports failure once, raises
\* the input's error, and writes no output file.
C5_MissingInput ==
  \A p \in Procs :
    (pc[p] = "done" /\ fs[frame[p].input_path].kind = "absent") =>
      /\ CountOp(p, "failure") = 1
      /\ outcome[p].kind = "raised"
      /\ outcome[p].error =
           Exc("FileNotFoundError", "No such file", frame[p].input_path)
      /\ \A k \in 1..Len(trace[p]) : trace[p][k].op # "write"

\* the _write_record calls made for a thread's current call
WriteRecordCalls(p) ==
  LET w == coll[frame[p].metrics].written
  IN Cardinality({k \in 1..Len(w) : w[k].by = Who(p)})

\* C6: with a JsonLogCollector a finished call has made exactly one
\* _write_record call, and before the terminal success or failure none.
C6_OneRecordPerCall ==
  \A p \in Procs :
    (pc[p] # "idle" /\ coll[frame[p].metrics].kind = "json") =>
      /\ pc[p] = "done" => WriteRecordCalls(p) = 1
      /\ (CountOp(p, "success") = 0 /\ CountOp(p, "failure") = 0) =>
           WriteRecordCalls(p) = 0

\* the record a JsonLogCollector holds after the first k of the calls evs,
\* all made in one conversion that started at ts
RECURSIVE Accumulate(_, _, _)
Accumulate(evs, k, ts) ==
  IF k = 0 THEN [x \in {} |-> 0]
  ELSE LET ev == evs[k]
           prev == Accumulate(evs, k - 1, ts)
       IN CASE ev.op = "start" ->
                 ("timestamp" :> strftime(ts)) @@ ("event" :> "conversion_start")
            [] ev.op = "read_time" ->
                 ("read_duration_seconds" :> ev.args[1]) @@ prev
            [] ev.op = "feature_count" ->
                 ("feature_count" :> ev.args[1]) @@ prev
            [] ev.op = "write_time" ->
                 ("write_duration_seconds" :> ev.args[1]) @@ prev
            [] ev.op = "file_sizes" ->
                 ("input_size_mb" :> ev.args[1]) @@ ("output_size_mb" :> ev.args[2])
                   @@ prev
            [] ev.op = "success" ->
                 ("event" :> "conversion_success")
                   @@ ("duration_seconds" :> ev.args[1]) @@ ev.args[2] @@ prev
            [] OTHER ->
                 ("event" :> "conversion_failure") @@ ("error" :> ev.args[1]) @@ prev

\* the record of the thread's current conversion, from its own calls alone
OwnRecord(p) == Accumulate(Events(p), Len(Events(p)), frame[p].total_start)

\* C7: a reused JsonLogCollector holds, from start on, exactly the fields
\* the current conversion has set, and the record it emits for a conversion
\* is made of that conversion's fields and values alone.
C7_RecordClearedAtStart ==
  \A p \in Procs :
    LET c == coll[frame[p].metrics]
    IN (c.kind = "json" /\ pc[p] \notin {"idle", "start"}) =>
         /\ c.current_record = OwnRecord(p)
         /\ (CountOp(p, "success") + CountOp(p, "failure") > 0) =>
              LastOf(c.written).line = OwnRecord(p)

\* a failed conversion right after a successful one, on the same collector
C7_Witness ==
  \E p \in Procs :
    LET w == coll[frame[p].metrics].written
    IN /\ coll[frame[p].metrics].kind = "json"
       /\ pc[p] = "done" /\ calls[p] = 2 /\ Len(w) = 2
       /\ w[1].by = <<p, 1>> /\ w[1].ok /\ w[1].line["event"] = "conversion_success"
       /\ w[2].by = <<p, 2>> /\ w[2].ok /\ w[2].line["event"] = "conversion_failure"
       /\ "duration_seconds" \notin DOMAIN w[2].line
       /\ "output_size_mb" \notin DOMAIN w[2].line

\* C8: the count given to record_feature_count is the row count of the
\* table that was read; on success it is also the feature_count of the
\* metadata and the row count of the file that was written.
C8_FeatureCount ==
  \A p \in Procs :
    /\ \A k \in 1..Len(trace[p]) :
         (IsEvent(trace[p][k]) /\ trace[p][k].op = "feature_count") =>
           trace[p][k].args[1] = fs[frame[p].input_path].table.rows
    /\ outcome[p].kind = "returned" =>
         /\ frame[p].metadata["feature_count"] = fs[frame[p].input_path].table.rows
         /\ LastOf(trace[p]).args[2]["feature_count"] =
              fs[frame[p].input_path].table.rows
         /\ fs[frame[p].output_path].table.rows = fs[frame[p].input_path].table.rows

C8_Witness ==
  \E p \in Procs :
    /\ pc[p] = "done" /\ outcome[p].kind = "returned"
    /\ frame[p].feature_count = Polygons.rows
    /\ fs[frame[p].output_path].kind = "geojson"

\* the arguments of the thread's call of op (the first, if several)
ArgsOf(p, op) ==
  LET k == CHOOSE j \in 1..Len(trace[p]) :
             IsEvent(trace[p][j]) /\ trace[p][j].op = op
  IN trace[p][k].args

\* C9: a call that returns has given record_conversion_success one metadata
\* record whose fields are those of this conversion; a call that ends with
\* an error has produced none.
C9_MetadataOncePerSuccess ==
  \A p \in Procs :
    /\ outcome[p].kind = "returned" =>
         /\ CountOp(p, "success") = 1
         /\ ArgsOf(p, "success")[2] = frame[p].metadata
         /\ frame[p].metadata["output_file"] = PathStr(frame[p].output_path)
         /\ frame[p].metadata["input_size_mb"] = ArgsOf(p, "file_sizes")[1]
         /\ frame[p].metadata["output_size_mb"] = ArgsOf(p, "file_sizes")[2]
         /\ frame[p].metadata["feature_count"] = ArgsOf(p, "feature_count")[1]
         /\ frame[p].metadata["crs"] = CrsStr(frame[p].gdf.crs)
    /\ outcome[p].kind = "raised" =>
         /\ CountOp(p, "success") = 0
         /\ DOMAIN frame[p].metadata = {}

\* C10: when main's collector cannot be constructed, convert_shapefile is
\* never called, no collector call is made and no file is touched; and a
\* call of convert_shapefile always has a constructed collector.
C10_NoConversionWithoutCollector ==
  /\ (mainpc # "lib" /\ args.construct # "ok") =>
       /\ \A p \in Procs : calls[p] = 0 /\ pc[p] = "idle" /\ trace[p] = <<>>
       /\ fs = [q \in Paths |-> InitialFs(q)]
  /\ \A p \in Procs :
       pc[p] # "idle" => coll[frame[p].metrics].kind # "unconstructed"

C10_Witness ==
  /\ mainpc \in {"returned", "crashed"}
  /\ args.metrics \in {"prometheus", "statsd"}
  /\ args.construct \in {"ImportError", "OSError"}
  /\ coll[1].kind = "unconstructed"

\* the calls in flight on collector i that stand at pc value at
InFlight(i, at) ==
  Cardinality({p \in threads : pc[p] = at /\ frame[p].metrics = i})

\* C11: a PrometheusCollector accumulates over the conversions it is used
\* for: its counter labelled success is the number of conversions that have
\* succeeded so far (those that returned, and the one that has reported its
\* success and is about to return), its counter labelled failure is the
\* number that have failed so far, the total-duration histogram has one
\* observation per successful conversion, and the step that calls
\* record_conversion_start leaves every metric as it was
C11_PrometheusAccumulates ==
  /\ [](\A i \in Insts : coll[i].kind = "prometheus" =>
          /\ coll[i].conversion_counter.success
               = finished[i].returned + InFlight(i, "return")
          /\ coll[i].conversion_counter.failure
               = finished[i].raised + InFlight(i, "reraise")
          /\ Len(coll[i].conversion_duration)
               = coll[i].conversion_counter.success)
  /\ [][\A p \in threads :
          (pc[p] = "start" /\ pc'[p] # "start"
              /\ coll[frame[p].metrics].kind = "prometheus") => coll' = coll]_vars

\* a PrometheusCollector has been through a conversion that returned and,
\* after it, one that raised
C11_Witness ==
  \E i \in Insts :
     /\ coll[i].kind = "prometheus"
     /\ finished[i] = [returned |-> 1, raised |-> 1]
     /\ \A p \in threads : pc[p] = "done" /\ outcome[p].kind = "raised"

\* C12: every NullCollector operation, whatever its arguments and whatever
\* was called before it, returns without raising and leaves the collector
\* as it was; and a conversion called with metrics=None runs on a collector
\* that is exactly a NullCollector, so it goes as it would with one passed
C12_NullCollectorInert ==
  /\ \A i \in Insts : coll[i].kind = "null" => coll[i] = NullCollector
  /\ \A p \in threads :
       LET i == IF pc[p] = "idle" THEN uses[p] ELSE frame[p].metrics
       IN /\ coll[i].kind = "null"
               => \A k \in 1..Len(trace[p]) :
                     IsEvent(trace[p][k]) => trace[p][k].ok
          /\ (pc[p] # "idle" /\ frame[p].metrics = 0) => coll[i] = NullCollector

\* a NullCollector has been handed a failure and then a success, outside
\* any conversion and with no start before them
C12_Witness ==
  \E p \in threads :
     /\ pc[p] = "idle"
     /\ coll[uses[p]] = NullCollector
     /\ OpsOf(Events(p)) = <<"failure", "success">>

\* out is name with its extension (what follows the last dot) replaced by
\* geojson; a name with no dot has nothing to replace and gets the extension
ExtensionReplaced(name, out) ==
  /\ Len(out) > 1
  /\ out[Len(out)] = "geojson"
  /\ SubSeq(out, 1, Len(out) - 1)
       = IF Len(name) > 1 THEN SubSeq(name, 1, Len(name) - 1) ELSE name

\* C13: the output path is the one the caller gave, and with none given it is
\* the input path with its extension replaced by .geojson (checked against
\* the arguments main parsed; a library caller gives OutGiven or nothing);
\* the write, the stat of the output and the output_file of the metadata
\* all use that one path
C13_OutputPath ==
  \A p \in threads :
     (pc[p] \notin {"idle", "start", "resolve"} /\ trace[p][1].ok) =>
     LET out == frame[p].output_path
         inp == frame[p].input_path
     IN /\ mainpc # "lib" =>
             IF args.output = NonePath THEN ExtensionReplaced(args.input, out)
             ELSE out = args.output
        /\ mainpc = "lib" => (out = OutGiven \/ ExtensionReplaced(inp, out))
        /\ \A k \in 1..Len(trace[p]) :
             LET t == trace[p][k]
             IN /\ (t.kind = "io" /\ t.op = "write") => t.args = <<out>>
                /\ (t.kind = "io" /\ t.op = "read") => t.args = <<inp>>
                /\ (t.kind = "io" /\ t.op = "stat") =>
                      t.args = IF \E j \in 1..(k - 1) :
                                     trace[p][j].kind = "io"
                                       /\ trace[p][j].op = "write"
                               THEN <<out>> ELSE <<inp>>
                /\ (IsEvent(t) /\ t.op = "success") =>
                      t.args[2]["output_file"] = PathStr(out)

\* main was given a.v1.shp and no output: it has written, stat-ed and
\* reported a.v1.geojson
C13_Witness ==
  /\ mainpc = "returned"
  /\ args.input = InDotted /\ args.output = NonePath
  /\ fs[<<"a", "v1", "geojson">>].kind = "geojson"
  /\ ArgsOf(1, "success")[2]["output_file"] = PathStr(<<"a", "v1", "geojson">>)

\* the records a JsonLogCollector has emitted (printed, or appended to its
\* file), oldest first
Emitted(c) == SelectSeq(c.written, LAMBDA w : w.ok)

\* C14: every record a JsonLogCollector emits has a timestamp and an event
\* tag, and the tag is conversion_success or conversion_failure, never
\* conversion_start; the record a finished conversion emitted carries the
\* timestamp taken at that conversion's start, and its tag is
\* conversion_success if the call returned and conversion_failure if it
\* raised
C14_EmittedRecordTagged ==
  /\ \A i \in Insts : coll[i].kind = "json" =>
       \A k \in 1..Len(Emitted(coll[i])) :
          LET line == Emitted(coll[i])[k].line
          IN /\ {"timestamp", "event"} \subseteq DOMAIN line
             /\ line["event"] \in {"conversion_success", "conversion_failure"}
  /\ \A p \in threads :
       LET c == coll[frame[p].metrics]
       IN (c.kind = "json" /\ pc[p] # "idle") =>
            \A k \in 1..Len(Emitted(c)) :
               LET w == Emitted(c)[k]
               IN w.by = Who(p) =>
                    /\ w.line["timestamp"] = strftime(frame[p].total_start)
                    /\ outcome[p].kind = "returned"
                         => w.line["event"] = "conversion_success"
                    /\ outcome[p].kind = "raised"
                         => w.line["event"] = "conversion_failure"

\* a JsonLogCollector has emitted the record of a conversion that returned
\* and then, at a later second, the record of one that raised
C14_Witness ==
  \E p \in threads :
     LET c == coll[frame[p].metrics]
     IN /\ c.kind = "json" /\ pc[p] = "done" /\ outcome[p].kind = "raised"
        /\ Len(Emitted(c)) = 2
        /\ Emitted(c)[1].line["event"] = "conversion_success"
        /\ Emitted(c)[2].line["event"] = "conversion_failure"
        /\ Emitted(c)[2].by = Who(p)
        /\ Emitted(c)[2].line["timestamp"] # Emitted(c)[1].line["timestamp"]

\* C16 as stated: of two concurrent conversions, each with its own
\* JsonLogCollector, every one that has ended has emitted exactly one record,
\* and the record has exactly the fields and values of that conversion
C16_OneRecordEach ==
  \A p \in threads :
     LET c == coll[uses[p]]
     IN (c.kind = "json" /\ pc[p] = "done") =>
          /\ Len(Emitted(c)) = 1
          /\ Emitted(c)[1].line = OwnRecord(p)

\* C16, amended: under every interleaving a thread's collector is touched by
\* that thread alone, its in-flight record holds exactly the fields and
\* values the thread's own conversion has set, and it emits at most one
\* record: none while the conversion runs, and once it has ended exactly one
\* if the terminal _write_record went through and none if it raised; the
\* emitted record is the one the conversion builds from its own calls
C16_NoInterference ==
  \A p \in threads :
     LET c == coll[uses[p]]
     IN c.kind = "json" =>
          /\ \A k \in 1..Len(c.written) : c.written[k].by = Who(p)
          /\ pc[p] \notin {"idle", "start"} => c.current_record = OwnRecord(p)
          /\ Len(Emitted(c)) <= 1
          /\ (CountOp(p, "success") + CountOp(p, "failure") = 0)
               => Len(c.written) = 0
          /\ pc[p] = "done" =>
               /\ Len(Emitted(c)) = (IF LastOf(Events(p)).ok THEN 1 ELSE 0)
               /\ Len(Emitted(c)) = 1 => Emitted(c)[1].line = OwnRecord(p)

\* thread 2 started and failed while thread 1 was converting; both have
\* emitted their record, one a success and one a failure
C16_Witness ==
  /\ threads = {1, 2} /\ uses[1] # uses[2]
  /\ pc[1] = "done" /\ pc[2] = "done"
  /\ outcome[1].kind = "returned" /\ outcome[2].kind = "raised"
  /\ frame[1].total_start = 0 /\ frame[1].total_time = 2
  /\ frame[2].total_start = 1
  /\ Len(Emitted(coll[1])) = 1 /\ Len(Emitted(coll[2])) = 1
  /\ Emitted(coll[1])[1].line["event"] = "conversion_success"
  /\ Emitted(coll[2])[1].line["event"] = "conversion_failure"

\* the file operations of the thread's call that failed
FailedIO(p) ==
  {k \in 1..Len(trace[p]) : trace[p][k].kind = "io" /\ ~trace[p][k].ok}

\* C17: a call that ends with an error has made the collector calls start,
\* then a proper prefix of read_time, feature_count, write_time, file_sizes,
\* then failure, and nothing after it: the prefix is empty when the input
\* stat or the read failed, read_time and feature_count when the write
\* failed, and these with write_time when the output stat failed; the file
\* operation that failed is the last one the call made
C17_FailureSequence ==
  \A p \in threads :
     outcome[p].kind = "raised" =>
       LET ops == OpsOf(Events(p))
           mid == SubSeq(ops, 2, Len(ops) - 1)
       IN /\ Len(ops) >= 2
          /\ ops[1] = "start"
          /\ LastOf(ops) = "failure"
          /\ IsEvent(LastOf(trace[p])) /\ LastOf(trace[p]).op = "failure"
          /\ Len(mid) < 4
          /\ mid = SubSeq(SuccessOrder, 2, Len(mid) + 1)
          /\ \A k \in FailedIO(p) :
               LET t == trace[p][k]
               IN /\ \A j \in (k + 1)..Len(trace[p]) : trace[p][j].kind # "io"
                  /\ (t.op = "stat" /\ t.args = <<frame[p].input_path>>
                         /\ Len(mid) = 0)
                     \/ (t.op = "read" /\ Len(mid) = 0)
                     \/ (t.op = "write" /\ Len(mid) = 2)
                     \/ (t.op = "stat" /\ t.args = <<frame[p].output_path>>
                           /\ Len(mid) = 3)

\* the file operations op of the thread's call, as positions in its trace
IOs(p, op) ==
  {k \in 1..Len(trace[p]) : trace[p][k].kind = "io" /\ trace[p][k].op = op}

\* C18: one call reads at most once and writes at most once; a call that
\* returns has written exactly one file, its output path; a write comes
\* only after the input stat and the read of the same call have succeeded,
\* so a call whose input stat or read failed has made no write; and no file
\* changes except in the write step of a call (or when the written file is
\* taken away under the output stat)
C18_ReadOnceWriteOnce ==
  /\ [](\A p \in threads :
          /\ Cardinality(IOs(p, "read")) <= 1
          /\ Cardinality(IOs(p, "write")) <= 1
          /\ outcome[p].kind = "returned" =>
               \E k \in IOs(p, "write") :
                  /\ IOs(p, "write") = {k}
                  /\ trace[p][k].ok
                  /\ trace[p][k].args = <<frame[p].output_path>>
          /\ (\A k \in IOs(p, "write") \cup (IF pc[p] = "write" THEN {Len(trace[p]) + 1}
                                                ELSE {}) :
                /\ \E j \in IOs(p, "stat") :
                      j < k /\ trace[p][j].ok
                        /\ trace[p][j].args = <<frame[p].input_path>>
                /\ \E j \in IOs(p, "read") : j < k /\ trace[p][j].ok)
          /\ (\E k \in FailedIO(p) :
                 \/ trace[p][k].op = "read"
                 \/ trace[p][k].op = "stat" /\ IOs(p, "read") = {})
               => IOs(p, "write") = {})
  /\ [][fs' # fs => \E p \in threads : pc[p] \in {"write", "stat_out"}
                                         /\ pc'[p] # pc[p]]_vars

\* a second call, on an input that cannot be read, after a first call wrote
\* its output: the output file is still the one the first call wrote
C18_Witness ==
  \E p \in threads :
     /\ pc[p] = "done" /\ calls[p] = 2 /\ outcome[p].kind = "raised"
     /\ frame[p].input_path = InBad
     /\ IOs(p, "read") # {} /\ IOs(p, "write") = {}
     /\ fs[OutGiven] = GeoJSONFile(Polygons)

\* the fields the intermediate calls of the thread's conversion have set
IntermediateFields(p) ==
  (IF CountOp(p, "read_time") > 0 THEN {"read_duration_seconds"} ELSE {})
    \cup (IF CountOp(p, "feature_count") > 0 THEN {"feature_count"} ELSE {})
    \cup (IF CountOp(p, "write_time") > 0 THEN {"write_duration_seconds"} ELSE {})
    \cup (IF CountOp(p, "file_sizes") > 0 THEN {"input_size_mb", "output_size_mb"}
          ELSE {})

\* C19: the record a JsonLogCollector emits for a failed conversion has the
\* timestamp, event = conversion_failure, the error message, and exactly
\* the fields the intermediate calls made before the failing step have set,
\* with the values they were given; the record emitted for a successful
\* conversion has the timestamp, event = conversion_success, all the
\* intermediate fields, duration_seconds and the metadata fields
C19_RecordContents ==
  \A p \in threads :
     LET c == coll[frame[p].metrics]
     IN (c.kind = "json" /\ pc[p] = "done") =>
          \A k \in 1..Len(Emitted(c)) :
             LET w == Emitted(c)[k]
             IN w.by = Who(p) =>
                  /\ w.line["event"] = "conversion_failure" =>
                       /\ DOMAIN w.line = {"timestamp", "event", "error"}
                                            \cup IntermediateFields(p)
                       /\ w.line["error"] = ArgsOf(p, "failure")[1]
                       /\ \A f \in IntermediateFields(p) :
                            w.line[f] = OwnRecord(p)[f]
                  /\ w.line["event"] = "conversion_success" =>
                       /\ DOMAIN w.line =
                            {"timestamp", "event", "read_duration_seconds",
                             "write_duration_seconds", "feature_count",
                             "input_size_mb", "output_size_mb",
                             "duration_seconds", "input_file", "output_file",
                             "crs"}
                       /\ w.line = OwnRecord(p)

\* no conversion is running
Quiescent == \A p \in threads : pc[p] \in {"idle", "done"}

\* the conversions a collector has been used for and that have ended
Ended(i) == finished[i].returned + finished[i].raised

\* s is the beginning of t
IsPrefix(s, t) == Len(s) <= Len(t) /\ s = SubSeq(t, 1, Len(s))

\* C20 as stated: after n conversions with a file-backed JsonLogCollector
\* the file holds what it held before and then exactly n records
C20_OneLinePerConversion ==
  \A i \in Insts :
     (coll[i].kind = "json" /\ Truthy(coll[i].output_file) /\ Quiescent) =>
       /\ Emitted(coll[i])[1] = PriorLine
       /\ Len(Emitted(coll[i])) = 1 + Ended(i)

\* C20, amended: the file only grows at its end (every step leaves the lines
\* it held, in place and unaltered, before any new one), it begins with its
\* prior content, the lines after that come from different conversions in
\* the order these ended, and after n conversions there are at most n of
\* them: one for each conversion whose last _write_record went through
C20_AppendOnly ==
  /\ [](\A i \in Insts :
          (coll[i].kind = "json" /\ Truthy(coll[i].output_file)) =>
            LET F == Emitted(coll[i])
                w == coll[i].written
            IN /\ Len(F) >= 1 /\ F[1] = PriorLine
               /\ \A j, k \in 2..Len(F) : j < k => F[j].by[2] < F[k].by[2]
               /\ Quiescent =>
                    /\ Len(F) <= 1 + Ended(i)
                    /\ Len(F) - 1 =
                         Cardinality({b \in {w[k].by : k \in 2..Len(w)} :
                            \E k \in 2..Len(w) :
                               /\ w[k].by = b /\ w[k].ok
                               /\ \A j \in (k + 1)..Len(w) : w[j].by # b}))
  /\ [][\A i \in Insts : IsPrefix(Emitted(coll[i]), Emitted(coll'[i]))]_vars

\* two conversions have ended, one returned and one raised, and the file
\* holds its prior line, then the success record, then the failure record
C20_Witness ==
  /\ Quiescent
  /\ Ended(1) = 2
  /\ Len(Emitted(coll[1])) = 3
  /\ Emitted(coll[1])[1] = PriorLine
  /\ Emitted(coll[1])[2].line["event"] = "conversion_success"
  /\ Emitted(coll[1])[3].line["event"] = "conversion_failure"

\* the other threads that pass the collector thread p passes
Sharers(p) == {q \in threads \ {p} : uses[q] = uses[p]}

\* C21: a JsonLogCollector shared by two running conversions keeps one
\* in-flight record for both.  Every record_conversion_start replaces that
\* record by a fresh timestamp and the tag conversion_start, whatever the
\* other conversion had put in it; a record emitted for a conversion has
\* that conversion's event tag and only fields that one of the sharing
\* conversions has set; and it differs from the record the conversion builds
\* from its own calls only when another conversion has been using the
\* collector
C21_SharedRecordUnsafe ==
  /\ [](\A p \in threads :
          LET c == coll[uses[p]]
              em == Emitted(c)
          IN c.kind = "json" =>
               \A k \in 1..Len(em) :
                  em[k].by = Who(p) =>
                    /\ em[k].line["event"] = OwnRecord(p)["event"]
                    /\ DOMAIN em[k].line \subseteq
                         DOMAIN OwnRecord(p)
                           \cup UNION {DOMAIN OwnRecord(q) \cup IntermediateFields(q) :
                                         q \in Sharers(p)}
                    /\ em[k].line # OwnRecord(p) =>
                         \E q \in Sharers(p) : pc[q] # "idle")
  /\ [][\A p \in threads :
          (pc[p] = "start" /\ pc'[p] = "resolve"
              /\ coll[frame[p].metrics].kind = "json") =>
            coll'[frame[p].metrics].current_record =
              ("timestamp" :> strftime(clock)) @@ ("event" :> "conversion_start")]_vars

\* thread 2 started after thread 1 had recorded its read time and failed
\* after thread 1 had recorded its feature count: the failure record of
\* thread 2 carries the feature count thread 1 set, and the success record
\* of thread 1 lacks its own read time and carries the error of thread 2
C21_Witness ==
  LET em == Emitted(coll[1])
  IN /\ threads = {1, 2} /\ uses[1] = 1 /\ uses[2] = 1
     /\ pc[1] = "done" /\ pc[2] = "done"
     /\ outcome[1].kind = "returned" /\ outcome[2].kind = "raised"
     /\ CountOp(2, "feature_count") = 0 /\ CountOp(1, "read_time") = 1
     /\ Len(em) = 2
     /\ em[1].by = Who(2) /\ "feature_count" \in DOMAIN em[1].line
     /\ em[2].by = Who(1) /\ "read_duration_seconds" \notin DOMAIN em[2].line
     /\ "error" \in DOMAIN em[2].line

\* the collector calls of the guarded section that raised in the thread's
\* call, as positions in its trace
RaisedInTry(p) ==
  {k \in 1..Len(trace[p]) :
     /\ IsEvent(trace[p][k]) /\ ~trace[p][k].ok
     /\ trace[p][k].op \in {"read_time", "feature_count", "write_time",
                             "file_sizes", "success"}}

\* C22: when a collector call of the guarded section raises, the call ends
\* having called record_conversion_failure exactly once, after it, with the
\* message of that exception, and raising that exception (for a collector
\* of the caller's, the error of the method that raised); when
\* record_conversion_start raises, nothing else is called, no failure is
\* reported and its exception is what the call raises
C22_CollectorRaises ==
  \A p \in threads :
     pc[p] = "done" =>
       /\ \A k \in RaisedInTry(p) :
            /\ RaisedInTry(p) = {k}
            /\ CountOp(p, "failure") = 1
            /\ LastOf(trace[p]).op = "failure" /\ Len(trace[p]) = k + 1
            /\ LastOf(trace[p]).args = <<ExcStr(frame[p].e)>>
            /\ coll[frame[p].metrics].kind = "custom"
                 => frame[p].e = CollectorError(trace[p][k].op)
            /\ outcome[p] = Raised(frame[p].e)
       /\ (IsEvent(trace[p][1]) /\ ~trace[p][1].ok) =>
            /\ Len(trace[p]) = 1
            /\ outcome[p] = Raised(CollectorError("start"))

\* C23: if every step that is under way is taken in the end, a call whose
\* record_conversion_start has returned ends, and it ends having called
\* record_conversion_success or record_conversion_failure
C23_Terminates ==
  \A p \in Procs :
     (pc[p] = "resolve") ~>
        (pc[p] = "done" /\ CountOp(p, "success") + CountOp(p, "failure") >= 1)

\* a call has gone through every step of the pipeline and has ended
C23_Witness ==
  \E p \in threads :
     /\ pc[p] = "done" /\ outcome[p].kind = "returned"
     /\ Len(trace[p]) = 10
     /\ CountOp(p, "success") = 1


====
